---- MODULE Spec2Model ----
(***************************************************************************)
(* The order checker of remain (src/check.rs): sorted() collects the sort  *)
(* keys of the declarations of a container, dropping those that carry an   *)
(* exclusion attribute, checks them under the two wildcard policies and,   *)
(* on a violation, locates the element the misplaced one should precede.   *)
(*                                                                         *)
(* A declaration is [node, attrs]: node is its syntax ([shape, segs, mods, *)
(* cases]) and attrs its attribute list, each attribute given by the       *)
(* segments of its path.  Sequences are 1-based here; every index the      *)
(* program computes (wrong, correct_pos) is kept 0-based as in the source  *)
(* and read through At.                                                    *)
(***************************************************************************)
EXTENDS Integers, Sequences, FiniteSets, TLC

VARIABLES input, items, pc, paths, result, run, orig, before, prev

vars == <<input, items, pc, paths, result, run, orig, before, prev>>

\* ------------------------------------------------------------------------
\* Bounds of the model
\* ------------------------------------------------------------------------
\* Most declarations of an annotated container.
MaxItems == 3
\* Most attributes in one container, over all its declarations.
MaxAttrs == 2
\* Most declarations of a container that carries no attribute.
MaxKeys == 4

\* ------------------------------------------------------------------------
\* Strings: identifiers are compared as strings, by code point
\* ------------------------------------------------------------------------
CodePoints ==
    ("A" :> <<65>>) @@
    ("B" :> <<66>>) @@
    ("C" :> <<67>>) @@
    ("D" :> <<68>>) @@
    ("X" :> <<88>>) @@
    ("Y" :> <<89>>) @@
    ("a" :> <<97>>) @@
    ("b" :> <<98>>) @@
    ("c" :> <<99>>) @@
    ("d" :> <<100>>) @@
    ("g" :> <<103>>) @@
    ("Ignored" :> <<73, 103, 110, 111, 114, 101, 100>>) @@
    ("AlsoIgnored" :> <<65, 108, 115, 111, 73, 103, 110, 111, 114, 101, 100>>) @@
    ("ignored" :> <<105, 103, 110, 111, 114, 101, 100>>) @@
    ("also_ignored" :> <<97, 108, 115, 111, 95, 105, 103, 110, 111, 114, 101, 100>>) @@
    ("TestEnum" :> <<84, 101, 115, 116, 69, 110, 117, 109>>) @@
    ("_" :> <<95>>)

RECURSIVE CmpCodes(_, _)
CmpCodes(l, r) ==
    IF l = <<>> /\ r = <<>> THEN "Equal"
    ELSE IF l = <<>> THEN "Less"
    ELSE IF r = <<>> THEN "Greater"
    ELSE IF Head(l) < Head(r) THEN "Less"
    ELSE IF Head(l) > Head(r) THEN "Greater"
    ELSE CmpCodes(Tail(l), Tail(r))

\* str::cmp: case-sensitive, byte by byte, a strict prefix first.
CmpStr(l, r) == CmpCodes(CodePoints[l], CodePoints[r])

\* The reserved wildcard segment.
Underscore == "_"

\* ------------------------------------------------------------------------
\* crate::compare (not among the sources; after the specification, 4.1)
\* ------------------------------------------------------------------------
UnderscoreOrder == {"First", "Last"}

CmpSegment(l, r, mode) ==
    IF l = Underscore /\ r = Underscore THEN "Equal"
    ELSE IF l = Underscore THEN (IF mode = "First" THEN "Less" ELSE "Greater")
    ELSE IF r = Underscore THEN (IF mode = "First" THEN "Greater" ELSE "Less")
    ELSE CmpStr(l, r)

RECURSIVE CmpSegments(_, _, _)
CmpSegments(ls, rs, mode) ==
    IF ls = <<>> /\ rs = <<>> THEN "Equal"
    ELSE IF ls = <<>> THEN "Less"
    ELSE IF rs = <<>> THEN "Greater"
    ELSE LET c == CmpSegment(Head(ls), Head(rs), mode)
         IN  IF c = "Equal" THEN CmpSegments(Tail(ls), Tail(rs), mode) ELSE c

\* cmp(lhs, rhs, mode) over (Category, Path): the category first, then the path.
cmp(lhs, rhs, mode) ==
    IF lhs.cat < rhs.cat THEN "Less"
    ELSE IF lhs.cat > rhs.cat THEN "Greater"
    ELSE CmpSegments(lhs.segs, rhs.segs, mode)

\* ------------------------------------------------------------------------
\* Attributes
\* ------------------------------------------------------------------------
RECURSIVE PathToString(_)
\* quote!(#path).to_string(): the segments joined by " :: ".
PathToString(path) ==
    IF Len(path) = 1 THEN path[1]
    ELSE path[1] \o " :: " \o PathToString(Tail(path))

IsUnsortedAttr(attr) ==
    LET path == PathToString(attr)
    IN  path = "unsorted" \/ path = "remain :: unsorted"

\* Vec::remove(i).
RemoveAt(s, i) == SubSeq(s, 1, i - 1) \o SubSeq(s, i + 1, Len(s))

\* A removal that drops every exclusion attribute instead of the first.
RECURSIVE RetainSorted(_)
RetainSorted(attrs) ==
    IF attrs = <<>> THEN <<>>
    ELSE IF IsUnsortedAttr(Head(attrs)) THEN RetainSorted(Tail(attrs))
    ELSE <<Head(attrs)>> \o RetainSorted(Tail(attrs))

RemoveEveryUnsortedAttr(attrs) ==
    [removed |-> \E i \in 1..Len(attrs) : IsUnsortedAttr(attrs[i]),
     attrs   |-> RetainSorted(attrs)]

\* remove_unsorted_attr: the first exclusion attribute is removed and true
\* returned; with none, false and the list as it was.
RemoveUnsortedAttr(attrs) ==
    LET hits == {i \in 1..Len(attrs) : IsUnsortedAttr(attrs[i])}
    IN  IF hits = {} THEN [removed |-> FALSE, attrs |-> attrs]
        ELSE LET i == CHOOSE k \in hits : \A j \in hits : k <= j
             IN  [removed |-> TRUE, attrs |-> RemoveAt(attrs, i)]

\* ------------------------------------------------------------------------
\* Sortable: attrs, to_path, category per declaration kind
\* ------------------------------------------------------------------------
ImplShapes == {"ImplItem::Const", "ImplItem::Type", "ImplItem::Method",
               "ImplItem::Macro", "ImplItem::Verbatim"}

\* <ImplItem as Sortable>::attrs panics on any other member kind; the other
\* three implementations return the attribute list.
AttrsPanics(node) ==
    node.shape \in ImplShapes
    /\ node.shape \notin {"ImplItem::Const", "ImplItem::Macro",
                          "ImplItem::Method", "ImplItem::Type"}

IsJustIdent(pat) == pat.mods = {}

\* to_path of an arm: the first alternative of an or-pattern, then by kind.
ArmToPath(node) ==
    LET pat == IF node.shape = "Pat::Or" THEN node.cases[1] ELSE node
    IN  CASE pat.shape = "Pat::Ident" /\ IsJustIdent(pat) ->
                [status |-> "Ok", segs |-> pat.segs]
          [] pat.shape \in {"Pat::Path", "Pat::Struct", "Pat::TupleStruct"} ->
                [status |-> "Ok", segs |-> pat.segs]
          [] pat.shape = "Pat::Wild" ->
                [status |-> "Ok", segs |-> <<Underscore>>]
          [] OTHER -> [status |-> "Err", segs |-> <<>>]

\* to_path: Ok with the segments, Err (unsupported), or a panic (expect).
ToPath(node) ==
    CASE node.shape = "Variant" -> [status |-> "Ok", segs |-> node.segs]
      [] node.shape = "Field" ->
            IF node.segs = <<>> THEN [status |-> "Panic", segs |-> <<>>]
            ELSE [status |-> "Ok", segs |-> node.segs]
      [] node.shape \in {"ImplItem::Const", "ImplItem::Type",
                         "ImplItem::Macro", "ImplItem::Method"} ->
            [status |-> "Ok", segs |-> node.segs]
      [] node.shape \in ImplShapes -> [status |-> "Err", segs |-> <<>>]
      [] OTHER -> ArmToPath(node)

\* The trait's default category, which an implementation may forget to override.
DefaultCategory(node) == 0

Category(node) ==
    CASE node.shape = "ImplItem::Const" -> 0
      [] node.shape = "ImplItem::Type" -> 1
      [] node.shape = "ImplItem::Method" -> 2
      [] node.shape = "ImplItem::Macro" -> 3
      [] node.shape \in ImplShapes -> 4
      [] OTHER -> 0

\* ------------------------------------------------------------------------
\* collect_paths
\* ------------------------------------------------------------------------
RECURSIVE CollectFrom(_, _, _)
\* The filter_map closure applied from declaration i on; collect() stops at
\* the first Err, a panic unwinds; at is the declaration that ended it.
CollectFrom(its, i, acc) ==
    IF i > Len(its) THEN [status |-> "Ok", items |-> its, paths |-> acc, at |-> 0]
    ELSE IF AttrsPanics(its[i].node)
    THEN [status |-> "Panic", items |-> its, paths |-> <<>>, at |-> i]
    ELSE LET r    == RemoveUnsortedAttr(its[i].attrs)
             its2 == [its EXCEPT ![i].attrs = r.attrs]
             p    == ToPath(its[i].node)
         IN  IF r.removed THEN CollectFrom(its2, i + 1, acc)
             ELSE IF p.status = "Ok"
             THEN CollectFrom(its2, i + 1,
                      Append(acc, [cat  |-> Category(its[i].node),
                                   segs |-> p.segs,
                                   at   |-> i]))
             ELSE [status |-> p.status, items |-> its2, paths |-> <<>>, at |-> i]

CollectPaths(its) == CollectFrom(its, 1, <<>>)

\* ------------------------------------------------------------------------
\* find_misordered and the diagnosis
\* ------------------------------------------------------------------------
\* paths[i] with the source's 0-based index.
At(s, i) == s[i + 1]

\* Option::None of find_misordered.
None == -1

\* A scan that reports the last decrease instead of the first.
FindLastMisordered(ps, mode) ==
    LET bad == {i \in 1..(Len(ps) - 1) : cmp(At(ps, i), At(ps, i - 1), mode) = "Less"}
    IN  IF bad = {} THEN None ELSE CHOOSE i \in bad : \A j \in bad : j <= i

\* find_misordered: the first i in 1..len with paths[i] < paths[i - 1].
FindMisordered(ps, mode) ==
    LET bad == {i \in 1..(Len(ps) - 1) : cmp(At(ps, i), At(ps, i - 1), mode) = "Less"}
    IN  IF bad = {} THEN None ELSE CHOOSE i \in bad : \A j \in bad : i <= j

\* slice::binary_search_by on a slice sorted by the comparator: Ok(i) for any
\* one matching element, else Err(i) with i the insertion point.
BinarySearchBy(slice, lesser, mode) ==
    LET eq == {i \in 0..(Len(slice) - 1) : cmp(At(slice, i), lesser, mode) = "Equal"}
        lt == {i \in 0..(Len(slice) - 1) : cmp(At(slice, i), lesser, mode) = "Less"}
    IN  IF eq # {} THEN {[ok |-> TRUE, idx |-> i] : i \in eq}
        ELSE {[ok |-> FALSE, idx |-> Cardinality(lt)]}

Success(pass) ==
    [tag |-> "Ok", pass |-> pass, wrong |-> None, correct_pos |-> None,
     lesser |-> 0, greater |-> 0, at |-> 0]

\* A check that stops after the first pass.
SortedFirstPolicyOnly(ps) ==
    LET wrong == FindMisordered(ps, "First")
    IN  IF wrong = None THEN {Success(1)}
        ELSE {[tag |-> "OrderViolation", pass |-> 0, wrong |-> wrong,
               correct_pos |-> 0, lesser |-> At(ps, wrong).at,
               greater |-> At(ps, 0).at, at |-> 0]}

\* sorted() from the collected paths on: the results it can return.
SortedPaths(ps) ==
    IF FindMisordered(ps, "First") = None THEN {Success(1)}
    ELSE LET wrong == FindMisordered(ps, "Last")
         IN  IF wrong = None THEN {Success(2)}
             ELSE LET lesser == At(ps, wrong)
                  IN  {[tag         |-> "OrderViolation",
                        pass        |-> 0,
                        wrong       |-> wrong,
                        correct_pos |-> IF o.ok THEN o.idx + 1 ELSE o.idx,
                        lesser      |-> lesser.at,
                        greater     |-> At(ps, IF o.ok THEN o.idx + 1 ELSE o.idx).at,
                        at          |-> 0] :
                       o \in BinarySearchBy(SubSeq(ps, 1, wrong - 1), lesser, "Last")}

\* ------------------------------------------------------------------------
\* The containers the check is run on
\* ------------------------------------------------------------------------
Node(shape, segs) == [shape |-> shape, segs |-> segs, mods |-> {}, cases |-> <<>>]
Pat(shape, segs) == [shape |-> shape, segs |-> segs, mods |-> {}]
Decl(node, attrs) == [node |-> node, attrs |-> attrs]

Unsorted == <<"unsorted">>
RemainUnsorted == <<"remain", "unsorted">>
AttrPaths == {Unsorted, RemainUnsorted, <<"doc">>}

\* A pattern with a by-reference binding, and one of no supported kind.
RefIdent(s) == [shape |-> "Pat::Ident", segs |-> <<s>>, mods |-> {"by_ref"}, cases |-> <<>>]
LitPat == Node("Pat::Lit", <<>>)
OrPat(cases) == [shape |-> "Pat::Or", segs |-> <<>>, mods |-> {}, cases |-> cases]

Kinds == {"Enum", "Impl", "Struct", "Match", "Let"}

\* The declarations of the annotated containers.
SmallNodes(kind) ==
    CASE kind = "Enum" -> {Node("Variant", <<s>>) : s \in {"A", "B", "a"}}
      [] kind = "Struct" -> {Node("Field", <<"a">>), Node("Field", <<>>)}
      [] kind = "Impl" -> {Node("ImplItem::Const", <<"B">>), Node("ImplItem::Method", <<"A">>),
                           Node("ImplItem::Verbatim", <<>>)}
      [] kind = "Match" -> {Node("Pat::Path", <<"A", "B">>), Node("Pat::Wild", <<>>), LitPat}
      [] kind = "Let" -> {Node("Pat::Ident", <<"a">>),
                          OrPat(<<Pat("Pat::TupleStruct", <<"B">>), Pat("Pat::Wild", <<>>)>>)}

\* The declarations of the containers without attributes.
PlainNodes(kind) ==
    CASE kind = "Enum" -> {Node("Variant", <<s>>) : s \in {"A", "B", "C"}}
      [] kind = "Struct" -> {Node("Field", <<"a">>), Node("Field", <<"b">>)}
      [] kind = "Impl" ->
            {Node(sh, <<s>>) : sh \in {"ImplItem::Const", "ImplItem::Method"}, s \in {"A", "B"}}
            \cup {Node("ImplItem::Type", <<"A">>), Node("ImplItem::Macro", <<"A">>),
                  Node("ImplItem::Macro", <<"A", "B">>)}
      [] kind = "Match" ->
            {Node("Pat::Path", <<"A">>), Node("Pat::Path", <<"A", "B">>),
             Node("Pat::Struct", <<"B">>), Node("Pat::TupleStruct", <<"a">>),
             Node("Pat::Ident", <<"B">>), Node("Pat::Wild", <<>>),
             OrPat(<<Pat("Pat::Path", <<"A", "a">>), Pat("Pat::Wild", <<>>)>>)}
      [] kind = "Let" -> {Node("Pat::Ident", <<"a">>), RefIdent("b"), Node("Pat::Wild", <<>>)}

Seqs(S, n) == UNION {[1..k -> S] : k \in 0..n}

RECURSIVE AttrLists(_, _)
\* The attribute lists of n declarations, of at most b attributes in all.
AttrLists(n, b) ==
    IF n = 0 THEN {<<>>}
    ELSE UNION {{<<l>> \o rest : rest \in AttrLists(n - 1, b - Len(l))} :
                l \in Seqs(AttrPaths, b)}

\* The fixtures of tests/stable.rs and the examples of the specification.
Arm(s) == Node("Pat::Path", <<"TestEnum", s>>)
Examples(kind) ==
    CASE kind = "Enum" ->
            {<<Decl(Node("Variant", <<"A">>), <<>>), Decl(Node("Variant", <<"B">>), <<>>),
               Decl(Node("Variant", <<"Ignored">>), <<RemainUnsorted>>),
               Decl(Node("Variant", <<"C">>), <<>>),
               Decl(Node("Variant", <<"AlsoIgnored">>), <<Unsorted>>),
               Decl(Node("Variant", <<"D">>), <<>>)>>,
             <<Decl(Node("Variant", <<"A">>), <<>>), Decl(Node("Variant", <<"B">>), <<>>),
               Decl(Node("Variant", <<"Ignored">>), <<Unsorted>>),
               Decl(Node("Variant", <<"D">>), <<>>), Decl(Node("Variant", <<"C">>), <<>>)>>}
      [] kind = "Struct" ->
            {<<Decl(Node("Field", <<"a">>), <<>>), Decl(Node("Field", <<"b">>), <<>>),
               Decl(Node("Field", <<"ignored">>), <<Unsorted>>),
               Decl(Node("Field", <<"c">>), <<>>),
               Decl(Node("Field", <<"also_ignored">>), <<RemainUnsorted>>),
               Decl(Node("Field", <<"d">>), <<>>)>>}
      [] kind = "Impl" ->
            {<<Decl(Node("ImplItem::Const", <<"X">>), <<>>),
               Decl(Node("ImplItem::Method", <<"g">>), <<>>),
               Decl(Node("ImplItem::Const", <<"Y">>), <<>>)>>}
      [] kind = "Match" ->
            {<<Decl(Arm("A"), <<>>), Decl(Arm("B"), <<>>), Decl(Arm("Ignored"), <<Unsorted>>),
               Decl(Arm("C"), <<>>), Decl(Arm("AlsoIgnored"), <<RemainUnsorted>>),
               Decl(Node("Pat::Wild", <<>>), <<>>)>>}
      [] kind = "Let" ->
            {<<Decl(Arm("A"), <<>>), Decl(Arm("Ignored"), <<RemainUnsorted>>),
               Decl(Arm("B"), <<>>), Decl(Arm("AlsoIgnored"), <<Unsorted>>),
               Decl(Arm("C"), <<>>), Decl(Node("Pat::Wild", <<>>), <<>>)>>}

\* The containers sorted() is given: declarations of one kind, annotated
\* within the attribute budget, or more of them without attributes, or a
\* fixture.
IsContainer(kind, its) ==
    \/ \E n \in 0..MaxItems : \E as \in AttrLists(n, MaxAttrs) :
         \E ns \in [1..n -> SmallNodes(kind)] :
            its = [i \in 1..n |-> Decl(ns[i], as[i])]
    \/ \E n \in 0..MaxKeys : \E ns \in [1..n -> PlainNodes(kind)] :
            its = [i \in 1..n |-> Decl(ns[i], <<>>)]
    \/ its \in Examples(kind)

\* ------------------------------------------------------------------------
\* The state machine: one call of sorted() is CollectStep then VerifyStep
\* ------------------------------------------------------------------------
NoResult ==
    [tag |-> "None", pass |-> 0, wrong |-> None, correct_pos |-> None,
     lesser |-> 0, greater |-> 0, at |-> 0]

Failure(tag, at) ==
    [tag |-> tag, pass |-> 0, wrong |-> None, correct_pos |-> None,
     lesser |-> 0, greater |-> 0, at |-> at]

Init ==
    /\ input \in Kinds
    /\ IsContainer(input, items)
    /\ pc = "collect"
    /\ paths = <<>>
    /\ result = NoResult
    /\ run = "first"
    /\ orig = items
    /\ before = items
    /\ prev = NoResult

\* sorted(), lines 11-16: collect_paths(...)? on the container's declarations.
CollectStep ==
    /\ pc = "collect"
    /\ LET c == CollectPaths(items)
       IN  /\ items' = c.items
           /\ paths' = c.paths
           /\ IF c.status = "Ok"
              THEN pc' = "verify" /\ result' = result
              ELSE /\ pc' = "done"
                   /\ result' = Failure(IF c.status = "Err" THEN "Unsupported" ELSE "Panic",
                                        c.at)
    /\ UNCHANGED <<input, run, orig, before, prev>>

\* sorted(), lines 18-35: the two passes and the diagnosis.
VerifyStep ==
    /\ pc = "verify"
    /\ \E r \in SortedPaths(paths) : result' = r
    /\ pc' = "done"
    /\ UNCHANGED <<input, items, paths, run, orig, before, prev>>

\* The check is run once more on the container as the first run left it.
SecondCall ==
    /\ pc = "done"
    /\ run = "first"
    /\ result.tag # "Panic"
    /\ run' = "second"
    /\ pc' = "collect"
    /\ paths' = <<>>
    /\ prev' = result
    /\ result' = NoResult
    /\ before' = items
    /\ UNCHANGED <<input, items, orig>>

Next == CollectStep \/ VerifyStep \/ SecondCall

Spec == Init /\ [][Next]_vars

\* ------------------------------------------------------------------------
\* What the claims speak of, stated apart from the code above
\* ------------------------------------------------------------------------
\* The two accepted spellings of the exclusion marker.
Markers == {<<"unsorted">>, <<"remain", "unsorted">>}
MarkerCount(d) == Cardinality({i \in 1..Len(d.attrs) : d.attrs[i] \in Markers})
Marked(d) == MarkerCount(d) > 0

\* The categories of trait/impl members as the specification lists them.
MemberCategory(node) ==
    CASE node.shape = "ImplItem::Const" -> 0
      [] node.shape = "ImplItem::Type" -> 1
      [] node.shape = "ImplItem::Method" -> 2
      [] node.shape = "ImplItem::Macro" -> 3
      [] node.shape = "ImplItem::Verbatim" -> 4
      [] OTHER -> 0

Yields(node) == ToPath(node).status = "Ok"
AllYield(its) == \A i \in 1..Len(its) : Marked(its[i]) \/ Yields(its[i].node)

RECURSIVE KeysFrom(_, _)
KeysFrom(its, i) ==
    IF i > Len(its) THEN <<>>
    ELSE (IF Marked(its[i]) THEN <<>>
          ELSE <<[cat  |-> MemberCategory(its[i].node),
                  segs |-> ToPath(its[i].node).segs,
                  at   |-> i]>>) \o KeysFrom(its, i + 1)

\* The keys of the declarations without a marker, in order, each with the
\* place of its declaration.
FilteredKeys(its) == KeysFrom(its, 1)

NoDecrease(ks, mode) == \A i \in 2..Len(ks) : cmp(ks[i], ks[i - 1], mode) # "Less"

Min(S) == CHOOSE x \in S : \A y \in S : x <= y

Done == pc = "done"
Failed == result.tag \in {"OrderViolation", "Unsupported", "Panic"}

\* The declarations with a marker deleted.
Kept(its) == SelectSeq(its, LAMBDA d : ~Marked(d))

\* A result without its places: the declarations it names.
NoNode == Node("-", <<>>)
Named(r, its) ==
    [tag     |-> r.tag,
     lesser  |-> IF r.tag = "OrderViolation" THEN its[r.lesser].node ELSE NoNode,
     greater |-> IF r.tag = "OrderViolation" THEN its[r.greater].node ELSE NoNode,
     at      |-> IF r.tag \in {"Unsupported", "Panic"} THEN its[r.at].node ELSE NoNode]

\* What sorted() can return on a container.
ResultsOn(its) ==
    LET c == CollectPaths(its)
    IN  IF c.status = "Ok" THEN {Named(r, its) : r \in SortedPaths(c.paths)}
        ELSE {Named(Failure(IF c.status = "Err" THEN "Unsupported" ELSE "Panic", c.at), its)}

\* ------------------------------------------------------------------------
\* The claims
\* ------------------------------------------------------------------------
\* C1: for every container whose declarations without a marker all yield a
\* key, sorted() succeeds exactly when the filtered keys have no adjacent
\* decrease under First or none under Last.
C1_SuccessIffSortedUnderEitherPolicy ==
    (Done /\ AllYield(before)) =>
        (result.tag = "Ok" <=>
            (\/ NoDecrease(FilteredKeys(before), "First")
             \/ NoDecrease(FilteredKeys(before), "Last")))

\* C2: the result of sorted() is the result on the same container with
\* every declaration that carries a marker deleted.
C2_ExcludedAsIfDeleted ==
    Done => Named(result, before) \in ResultsOn(Kept(before))

\* C3: an arm list whose filtered keys are sorted concrete keys and exactly
\* one wildcard passes when the wildcard is first (pass 1 accepts it) and
\* when it is last (pass 2 accepts it once a concrete key precedes it).
C3_SingleWildcardFirstOrLast ==
    (Done /\ input \in {"Match", "Let"} /\ AllYield(before)) =>
        LET ks       == FilteredKeys(before)
            n        == Len(ks)
            wild     == {i \in 1..n : ks[i].segs = <<Underscore>>}
            concrete == SelectSeq(ks, LAMBDA k : k.segs # <<Underscore>>)
        IN  (Cardinality(wild) = 1 /\ NoDecrease(concrete, "First")
             /\ (wild = {1} \/ wild = {n})) =>
                /\ result.tag = "Ok"
                /\ wild = {1} => result.pass = 1
                /\ (wild = {n} /\ n >= 2) => result.pass = 2

C3_Witness ==
    /\ Done /\ input \in {"Match", "Let"} /\ AllYield(before)
    /\ \E i \in 1..Len(before) : Marked(before[i])
    /\ LET ks == FilteredKeys(before)
       IN  /\ Len(ks) >= 3
           /\ ks[Len(ks)].segs = <<Underscore>>
           /\ \A i \in 1..(Len(ks) - 1) : ks[i].segs # <<Underscore>>
    /\ result.tag = "Ok" /\ result.pass = 2

\* The example of the specification: keys A, B, Ignored (excluded), D, C.
ExampleABDC ==
    <<Decl(Node("Variant", <<"A">>), <<>>), Decl(Node("Variant", <<"B">>), <<>>),
      Decl(Node("Variant", <<"Ignored">>), <<Unsorted>>),
      Decl(Node("Variant", <<"D">>), <<>>), Decl(Node("Variant", <<"C">>), <<>>)>>

\* C4: an order violation reports keys[i] for the first i with
\* keys[i] < keys[i-1] under Last, the reference is within keys[0..i], and
\* with no key of the searched prefix equal to the violator the reference is
\* the first key of keys[0..i] greater than it; A, B, Ignored (excluded), D, C
\* reports C with reference D.
C4_ViolatorAndReference ==
    (Done /\ result.tag = "OrderViolation") =>
        LET ks  == FilteredKeys(before)
            bad == {i \in 1..(Len(ks) - 1) : cmp(At(ks, i), At(ks, i - 1), "Last") = "Less"}
            i   == Min(bad)
            v   == At(ks, i)
            eqs == {j \in 0..(i - 2) : cmp(At(ks, j), v, "Last") = "Equal"}
            gts == {j \in 0..(i - 1) : cmp(At(ks, j), v, "Last") = "Greater"}
        IN  /\ bad # {}
            /\ result.wrong = i
            /\ result.lesser = v.at
            /\ result.correct_pos \in 0..(i - 1)
            /\ eqs = {} => /\ result.correct_pos = Min(gts)
                           /\ result.greater = At(ks, Min(gts)).at
            /\ before = ExampleABDC =>
                    /\ before[result.lesser].node.segs = <<"C">>
                    /\ before[result.greater].node.segs = <<"D">>

C4_Witness ==
    /\ Done /\ result.tag = "OrderViolation"
    /\ result.wrong >= 3
    /\ result.correct_pos \in 1..(result.wrong - 2)
    /\ \A j \in 0..(result.wrong - 2) :
            cmp(At(paths, j), At(paths, result.wrong), "Last") # "Equal"
    /\ \E k \in 1..Len(paths) : paths[k].segs = <<Underscore>>

\* The example of the specification: const X, method g, const Y.
ExampleXgY ==
    <<Decl(Node("ImplItem::Const", <<"X">>), <<>>),
      Decl(Node("ImplItem::Method", <<"g">>), <<>>),
      Decl(Node("ImplItem::Const", <<"Y">>), <<>>)>>

\* C5: among trait/impl members the category decides before the name: a
\* member without a marker followed, after filtering, by one of a strictly
\* lower category makes sorted() fail (with an order violation when every
\* member is of a supported kind), and const X, method g, const Y reports Y
\* with reference g.
C5_CategoryBeforePath ==
    (Done /\ input = "Impl") =>
        LET live == {i \in 1..Len(before) : ~Marked(before[i])}
            adj  == {p \in live \X live :
                        /\ p[1] < p[2]
                        /\ \A k \in live : ~(p[1] < k /\ k < p[2])}
        IN  /\ (\E p \in adj : MemberCategory(before[p[2]].node)
                                   < MemberCategory(before[p[1]].node)) =>
                    /\ Failed
                    /\ (\A i \in 1..Len(before) :
                            before[i].node.shape # "ImplItem::Verbatim") =>
                                result.tag = "OrderViolation"
            /\ before = ExampleXgY =>
                    /\ result.tag = "OrderViolation"
                    /\ result.lesser = 3
                    /\ result.greater = 2

C5_Witness ==
    /\ Done /\ input = "Impl"
    /\ Len(before) = 2
    /\ before[1].node = Node("ImplItem::Method", <<"A">>)
    /\ before[2].node = Node("ImplItem::Const", <<"B">>)
    /\ result.tag = "OrderViolation"

\* C6: a declaration without a marker that cannot be reduced to a key (an
\* unnamed field, a member of another kind, an unsupported pattern) makes
\* sorted() return an UnsupportedDeclaration error, not panic, and not
\* report an order violation.
C6_UnsupportedIsReturnedAsError ==
    (Done /\ ~AllYield(before)) =>
        /\ result.tag = "Unsupported"
        /\ ~Marked(before[result.at]) /\ ~Yields(before[result.at].node)

\* C7: if sorted() succeeded on a container, a second run on that container,
\* whose markers the first run stripped, succeeds as well.
\* It is stated on the containers whose declarations are all of a supported
\* shape, where the second run can only succeed or report an order violation.
C7_SecondRunSucceeds ==
    (Done /\ run = "second" /\ prev.tag = "Ok"
     /\ \A i \in 1..Len(orig) : Yields(orig[i].node)) => result.tag = "Ok"

\* C7, as amended: if sorted() succeeded on a container and every
\* declaration that carried a marker still carries one afterwards (it
\* carried at least two), a second run succeeds as well.
C7_SecondRunSucceedsWhileStillExcluded ==
    (Done /\ run = "second" /\ prev.tag = "Ok"
     /\ \A i \in 1..Len(orig) : MarkerCount(orig[i]) # 1) => result.tag = "Ok"

C7_Witness ==
    /\ Done /\ run = "second" /\ prev.tag = "Ok" /\ result.tag = "Ok"
    /\ \A i \in 1..Len(orig) : MarkerCount(orig[i]) # 1
    /\ \E i \in 1..Len(orig) : MarkerCount(orig[i]) = 2
    /\ Len(paths) >= 2

\* C8: when the binary search finds a key equal to the violator, the
\* reference is the first key after the whole run of equal keys, hence
\* strictly greater than the violator.
C8_ReferencePastEqualRun ==
    (Done /\ result.tag = "OrderViolation"
     /\ \E j \in 0..(result.wrong - 2) :
            cmp(At(paths, j), At(paths, result.wrong), "Last") = "Equal") =>
        cmp(At(paths, result.correct_pos), At(paths, result.wrong), "Last") = "Greater"

\* C9: a declaration that carries a marker is skipped before its key is
\* derived, whatever its shape: it causes neither an UnsupportedDeclaration
\* error nor a panic.
C9_ExcludedNeverFails ==
    (Done /\ result.tag \in {"Unsupported", "Panic"}) => ~Marked(before[result.at])

\* The attribute list a visited declaration is left with: the first marker
\* gone, everything else in place.
WithoutFirstMarker(attrs) ==
    LET hits == {i \in 1..Len(attrs) : attrs[i] \in Markers}
    IN  IF hits = {} THEN attrs
        ELSE [j \in 1..(Len(attrs) - 1) |->
                 IF j < Min(hits) THEN attrs[j] ELSE attrs[j + 1]]

\* C10: a call changes the container only in the attribute lists: each
\* declaration whose attributes it went through loses exactly its first
\* marker, if it has one, and keeps every other attribute in order; the
\* declarations it did not reach, and the number and order of all of them,
\* stay as they were.
C10_OnlyFirstMarkerRemoved ==
    (pc \in {"verify", "done"}) =>
        LET stop == IF result.tag \in {"Unsupported", "Panic"}
                    THEN result.at ELSE Len(before) + 1
        IN  /\ Len(items) = Len(before)
            /\ \A i \in 1..Len(before) :
                 /\ items[i].node = before[i].node
                 /\ i < stop => items[i].attrs = WithoutFirstMarker(before[i].attrs)
                 /\ i >= stop => items[i].attrs = before[i].attrs
                 /\ Len(items[i].attrs) >= Len(before[i].attrs) - 1

C10_Witness ==
    /\ Done
    /\ \E i \in 1..Len(before) :
         /\ before[i].attrs = <<Unsorted, RemainUnsorted>>
         /\ items[i].attrs = <<RemainUnsorted>>
    /\ \E i \in 1..Len(before) :
         /\ before[i].attrs = <<>>

\* ------------------------------------------------------------------------
\* C1, C2 and C9 apart from the one case that breaks them
\* ------------------------------------------------------------------------
\* No trait/impl member of an unsupported kind carries a marker.
NoMarkedVerbatim ==
    \A i \in 1..Len(before) :
        ~(Marked(before[i]) /\ before[i].node.shape = "ImplItem::Verbatim")

\* C1, C2 and C9 hold on every container in which no member of an
\* unsupported kind carries a marker: the panic of attrs() on such a member
\* is the only way they fail.
HoldApartFromMarkedVerbatim ==
    NoMarkedVerbatim =>
        /\ C1_SuccessIffSortedUnderEitherPolicy
        /\ C2_ExcludedAsIfDeleted
        /\ C9_ExcludedNeverFails
====
